---- MODULE Spec2Model ----
(***************************************************************************)
(* cpdash: scan an object store under a glob pattern and dump the matched  *)
(* objects to standard output.                                             *)
(*                                                                         *)
(* The model follows the lib package: newGlobPattern compiles the path,    *)
(* producer.produce / producer.walk_page list the store and dispatch the   *)
(* matched objects over two unbuffered channels, Run starts one streamed   *)
(* worker and Concurrency pooled workers, consume / consumeSequential      *)
(* download an object and logContent writes it under the mutex mu.         *)
(*                                                                         *)
(* A path is a sequence of one-character strings.                          *)
(***************************************************************************)
EXTENDS Integers, Sequences, FiniteSets, TLC

(***************************************************************************)
(* Bounds of the model.                                                    *)
(***************************************************************************)
\* Entries (keys and common prefixes together) returned by one listing page.
PageSize == 2
\* Largest number of pooled workers (the flag -P) that is tried.
MaxConcurrency == 2
\* Largest download limit (the flag -limit) that is tried.
MaxLimit == 10
\* The longest payload that is compressed.
MaxPayloadLen == 2
\* The longest url path that is compiled on its own.
MaxPathLen == 4

(***************************************************************************)
(* Program constants, scaled to the sizes of the modelled store.           *)
(***************************************************************************)
\* len(copyBuf): the bytes io.CopyBuffer moves with one Write.
CopyBufLen == 2

\* *p.bytesDownloaded is a uint64: the counter wraps at 2^64, here at 2^11.
CounterModulus == 2048

\* -f: args.Limit = math.MaxInt64, half the range of the counter less one,
\* above the size of every bucket tried.
NoLimit == 1023

(***************************************************************************)
(* Strings.                                                                *)
(***************************************************************************)
SEP == "/"

HasPrefix(s, p) == Len(p) <= Len(s) /\ SubSeq(s, 1, Len(p)) = p

\* strings.IndexByte, counted from 1; 0 when c does not occur in s.
IndexByte(s, c) ==
    IF \E i \in 1..Len(s) : s[i] = c
    THEN CHOOSE i \in 1..Len(s) : s[i] = c /\ \A j \in 1..(i - 1) : s[j] # c
    ELSE 0

\* strings.Contains(dir, "**")
ContainsStarStar(s) == \E i \in 1..(Len(s) - 1) : s[i] = "*" /\ s[i + 1] = "*"

\* strings.Count(s, "/")
RECURSIVE CountSep(_)
CountSep(s) ==
    IF s = << >> THEN 0
    ELSE (IF s[1] = SEP THEN 1 ELSE 0) + CountSep(Tail(s))

\* strings.SplitAfter(s, "/"): the pieces keep their separator, and the last
\* piece is empty when s ends in a separator.
RECURSIVE SplitAfter(_)
SplitAfter(s) ==
    LET i == IndexByte(s, SEP)
    IN  IF i = 0 THEN << s >>
        ELSE << SubSeq(s, 1, i) >> \o SplitAfter(SubSeq(s, i + 1, Len(s)))

\* strings.Join(dirs[:n], "")
RECURSIVE Join(_, _)
Join(dirs, n) == IF n = 0 THEN << >> ELSE Join(dirs, n - 1) \o dirs[n]

(***************************************************************************)
(* glob.Glob.Match with the separator '/': a star matches any run of       *)
(* non-separators, a double star any run, a question mark one              *)
(* non-separator, every other character itself.                            *)
(***************************************************************************)
RECURSIVE Match(_, _)
Match(p, s) ==
    IF p = << >> THEN s = << >>
    ELSE IF Len(p) >= 2 /\ p[1] = "*" /\ p[2] = "*"
    THEN \E k \in 0..Len(s) : Match(SubSeq(p, 3, Len(p)), SubSeq(s, k + 1, Len(s)))
    ELSE IF p[1] = "*"
    THEN \E k \in 0..Len(s) :
            /\ \A j \in 1..k : s[j] # SEP
            /\ Match(Tail(p), SubSeq(s, k + 1, Len(s)))
    ELSE IF p[1] = "?"
    THEN s # << >> /\ s[1] # SEP /\ Match(Tail(p), Tail(s))
    ELSE s # << >> /\ s[1] = p[1] /\ Match(Tail(p), Tail(s))

(***************************************************************************)
(* newGlobPattern.                                                         *)
(***************************************************************************)
MetaChars == << "{", "[", "*", "\\", "?" >>

\* A variant of CutAtMeta that leaves the loop at the first metacharacter of
\* the list that it finds.
RECURSIVE CutAtFirstMeta(_, _)
CutAtFirstMeta(st, k) ==
    IF k > Len(MetaChars) THEN st
    ELSE LET idx == IndexByte(st.prefix, MetaChars[k])
         IN  IF idx = 0 THEN CutAtFirstMeta(st, k + 1)
             ELSE [prefix |-> SubSeq(st.prefix, 1, idx - 1), globbed |-> TRUE]

\* The inner loop over the metacharacters: st = [prefix, globbed].
RECURSIVE CutAtMeta(_, _)
CutAtMeta(st, k) ==
    IF k > Len(MetaChars) THEN st
    ELSE LET idx == IndexByte(st.prefix, MetaChars[k])
         IN  IF idx = 0 THEN CutAtMeta(st, k + 1)
             ELSE LET stripped ==
                          IF ~st.globbed /\ st.prefix[Len(st.prefix)] = SEP
                          THEN SubSeq(st.prefix, 1, Len(st.prefix) - 1)
                          ELSE st.prefix
                  IN  CutAtMeta([prefix |-> SubSeq(stripped, 1, idx - 1),
                                 globbed |-> TRUE], k + 1)

\* The loop over dirs: acc = [prefix, globbed, globs, counts].
RECURSIVE CompileDirs(_, _, _)
CompileDirs(dirs, i, acc) ==
    IF i > Len(dirs) THEN acc
    ELSE IF ContainsStarStar(dirs[i])
    THEN [acc EXCEPT !.globs = Append(@, Join(dirs, i)),
                     !.counts = Append(@, -1)]
    ELSE LET cut == IF acc.globbed
                    THEN [prefix |-> acc.prefix, globbed |-> TRUE]
                    ELSE CutAtMeta([prefix |-> acc.prefix \o dirs[i],
                                    globbed |-> FALSE], 1)
             pat == Join(dirs, i)
             nxt == IF cut.globbed
                    THEN [prefix |-> cut.prefix, globbed |-> TRUE,
                          globs |-> Append(acc.globs, pat),
                          counts |-> Append(acc.counts, CountSep(pat))]
                    ELSE [acc EXCEPT !.prefix = cut.prefix]
         IN  CompileDirs(dirs, i + 1, nxt)

\* path is the part of the url after s3://bucket/
newGlobPattern(path) ==
    LET dirs == SplitAfter(path)
        acc == CompileDirs(dirs, 1, [prefix |-> << >>, globbed |-> FALSE,
                                     globs |-> << >>, counts |-> << >>])
    IN  [globFreePrefix |-> acc.prefix,
         pattern |-> Join(dirs, Len(dirs)),
         globs |-> acc.globs,
         counts |-> acc.counts]

(***************************************************************************)
(* State.                                                                  *)
(***************************************************************************)
VARIABLES
    args,             \* Args
    store,            \* the objects of the bucket
    globPattern,      \* the GlobPattern newGlobPattern returned
    stack,            \* the calls of producer.produce in progress, innermost last
    ppc,              \* where the producer goroutine stands
    bytesDownloaded,  \* *p.bytesDownloaded
    closed,           \* the channels closed so far
    wk,               \* the workers: 0 is the streamed one, 1.. the pooled ones
    semCur,           \* the capacity of sem that is taken
    mu,               \* the worker that holds mu, or NoWorker
    output,           \* what has been written to standard output, in order
    status,           \* the exit status, or Running
    listCalls,        \* history: the ListObjectsV2 calls issued
    dispatched,       \* history: the objects sent over a channel
    processed,        \* history: the objects whose logContent has returned
    fut               \* the producer and main that signal over sequentialFuture

vars == << args, store, globPattern, stack, ppc, bytesDownloaded, closed, wk, semCur,
           mu, output, status, listCalls, dispatched, processed, fut >>

(***************************************************************************)
(* Object bodies. A byte is a number in 0..255. The compressed formats are *)
(* modelled by their structure: a magic number, a format header, a body of *)
(* literal tokens (1, b) closed by the token 0, and a checksum over the    *)
(* payload, so that a stream can be truncated, corrupted or misread from   *)
(* the wrong offset.                                                       *)
(***************************************************************************)
gzipMagic == << 31, 139, 8 >>
zstdMagic == << 40, 181, 47, 253 >>
Newline == 10

RECURSIVE SumBytes(_)
SumBytes(x) == IF x = << >> THEN 0 ELSE x[1] + SumBytes(Tail(x))

Checksum(x) == (SumBytes(x) + Len(x)) % 256

RECURSIVE Tokens(_)
Tokens(x) == IF x = << >> THEN << 0 >> ELSE << 1, x[1] >> \o Tokens(Tail(x))

\* createGzipped: gzip.NewWriter, Write, Close. The byte after the magic
\* stands for the rest of the ten-byte header.
Gzip(x) == gzipMagic \o << 0 >> \o Tokens(x) \o << Checksum(x) >>

\* A zstd frame that holds x.
ZstdFrame(x) == zstdMagic \o Tokens(x) \o << Checksum(x) >>

\* createZstdded: zstd.NewWriter, Write, Close, which emits no frame at all
\* for an empty payload.
Zstd(x) == IF x = << >> THEN << >> ELSE ZstdFrame(x)

\* The tokens at the head of s: the literals read before the closing token
\* or the first fault, whether the closing token was found, and what follows.
RECURSIVE Inflate(_)
Inflate(s) ==
    IF s = << >> THEN [out |-> << >>, ok |-> FALSE, rest |-> << >>]
    ELSE IF s[1] = 0 THEN [out |-> << >>, ok |-> TRUE, rest |-> Tail(s)]
    ELSE IF s[1] = 1 /\ Len(s) >= 2
         THEN LET r == Inflate(SubSeq(s, 3, Len(s)))
              IN  [r EXCEPT !.out = << s[2] >> \o @]
    ELSE [out |-> << >>, ok |-> FALSE, rest |-> << >>]

\* What reading a token body with its checksum to the end yields: the bytes
\* delivered, and the error that ends the reading after them, if any.
ReadFrame(s) ==
    LET r == Inflate(s)
    IN  [out |-> r.out,
         err |-> IF r.ok /\ r.rest = << Checksum(r.out) >> THEN "none" ELSE "body"]

\* gzip.Reader: Reset reads the header and fails on one that is cut short or
\* malformed; Read then delivers the payload and fails on a corrupt body.
Gunzip(s) ==
    IF Len(s) < 4 \/ SubSeq(s, 1, 3) # gzipMagic
    THEN [out |-> << >>, err |-> "header"]
    ELSE ReadFrame(SubSeq(s, 5, Len(s)))

\* zstd.Decoder: Reset does not read; Read delivers the payload of the frame
\* and fails on a stream that is not one well-formed frame.
Unzstd(s) ==
    IF Len(s) < 4 \/ SubSeq(s, 1, 4) # zstdMagic
    THEN [out |-> << >>, err |-> "body"]
    ELSE ReadFrame(SubSeq(s, 5, Len(s)))

(***************************************************************************)
(* The object store: the keys of the bucket in the order in which          *)
(* ListObjectsV2 returns them (ascending), each with its size and body.    *)
(***************************************************************************)
Store ==
    << [key |-> << "a", "/", "x", "/", "c", "/", "f" >>, size |-> 2,
        body |-> << 65, 10 >>],
       [key |-> << "a", "/", "x", "/", "c", "/", "g" >>, size |-> 3,
        body |-> << 65, 65, 10 >>],
       [key |-> << "a", "/", "x", "/", "d", "/", "f" >>, size |-> 1,
        body |-> << 65 >>],
       [key |-> << "a", "/", "y", "/", "c", "/", "f" >>, size |-> 2,
        body |-> << 65, 10 >>],
       [key |-> << "a", "/", "y", "/", "c", "/", "h", "/", "k" >>, size |-> 1,
        body |-> << 10 >>],
       [key |-> << "a", "/", "z" >>, size |-> 1, body |-> << 65 >>],
       [key |-> << "b", "/", "f" >>, size |-> 1, body |-> << 65 >>] >>

StoreKeys == { store[i].key : i \in 1..Len(store) }

\* GetObject, Download: the body stored under key.
BodyOf(key) == store[CHOOSE i \in 1..Len(store) : store[i].key = key].body

\* The url arguments that are tried.
Paths ==
    { << "a", "/", "*", "/", "c", "/", "*", "*" >>,
      << "a", "/", "x", "/", "*", "*", "/", "f" >>,
      << "a", "/", "x", "/", "c", "/", "f" >>,
      << "a", "/", "x", "/", "c", "/", "g" >> }

\* The entry a listing of prefix shows for the object obj, which lies under
\* prefix: with a delimiter, a key that holds a separator after the prefix is
\* rolled up into a common prefix.
EntryOf(prefix, delimited, obj) ==
    LET rest == SubSeq(obj.key, Len(prefix) + 1, Len(obj.key))
        cut == IndexByte(rest, SEP)
    IN  IF delimited /\ cut # 0
        THEN [dir |-> TRUE, prefix |-> prefix \o SubSeq(rest, 1, cut)]
        ELSE [dir |-> FALSE, key |-> obj.key, size |-> obj.size]

\* The entries a listing of prefix returns over all its pages, in the order
\* of the keys, each common prefix once.
Entries(prefix, delimited) ==
    LET under == { i \in 1..Len(store) : HasPrefix(store[i].key, prefix) }
        first == { i \in under : \A j \in under :
                      j < i => EntryOf(prefix, delimited, store[j])
                               # EntryOf(prefix, delimited, store[i]) }
    IN  [ k \in 1..Cardinality(first) |->
            EntryOf(prefix, delimited,
                    store[CHOOSE i \in first : Cardinality({ j \in first : j <= i }) = k]) ]

RECURSIVE SelectDir(_, _)
SelectDir(es, dir) ==
    IF es = << >> THEN << >>
    ELSE (IF es[1].dir = dir THEN << es[1] >> ELSE << >>) \o SelectDir(Tail(es), dir)

\* The continuation token is the index of the first entry of the next page.
NextContinuationToken(token) == token + PageSize

\* s3Client.ListObjectsV2: one page of at most PageSize entries.
ListObjectsV2(prefix, delimited, token) ==
    LET all == Entries(prefix, delimited)
        last == IF token + PageSize - 1 < Len(all) THEN token + PageSize - 1 ELSE Len(all)
        page == SubSeq(all, token, last)
    IN  [Contents |-> SelectDir(page, FALSE),
         CommonPrefixes |-> SelectDir(page, TRUE),
         NextContinuationToken |-> NextContinuationToken(token),
         IsTruncated |-> last < Len(all)]

(***************************************************************************)
(* Args: the flags of one run, fixed from the start.                       *)
(***************************************************************************)
Limits == { 2, MaxLimit }
BufferLimits == { 3 }

ArgsSet ==
    [ Path : Paths, Limit : Limits, BufferLimit : BufferLimits,
      Concurrency : 0..MaxConcurrency, List : BOOLEAN, Keys : BOOLEAN ]

\* The payloads that are compressed: every string of at most MaxPayloadLen
\* bytes over a newline and a letter.
PayloadBytes == { Newline, 65 }
Payloads == UNION { [1..n -> PayloadBytes] : n \in 0..MaxPayloadLen }

\* Streams that are not what a compressor writes: parts of a magic number, a
\* magic number with nothing or with garbage after it, a stream cut short, a
\* stream with a wrong checksum, and a gzip stream after a leading letter.
Damaged ==
    { << 31 >>, << 31, 139 >>, gzipMagic, << 31, 139, 0, 65 >>,
      SubSeq(zstdMagic, 1, 3), zstdMagic, zstdMagic \o << 7 >>,
      SubSeq(Gzip(<< 65 >>), 1, Len(Gzip(<< 65 >>)) - 1),
      SubSeq(ZstdFrame(<< 65 >>), 1, Len(ZstdFrame(<< 65 >>)) - 1),
      [Gzip(<< 65 >>) EXCEPT ![Len(Gzip(<< 65 >>))] = (@ + 1) % 256],
      << 65 >> \o Gzip(<< >>) }

Bodies ==
    Payloads \cup { Gzip(x) : x \in Payloads } \cup { ZstdFrame(x) : x \in Payloads }
             \cup Damaged

\* A bucket whose second object holds body, after an object that holds a
\* gzip stream and before objects that hold plain text.
DecodeStore(body) ==
    << [key |-> << "a", "/", "x", "/", "c", "/", "f" >>, size |-> Len(Gzip(<< 65, 10 >>)),
        body |-> Gzip(<< 65, 10 >>)],
       [key |-> << "a", "/", "x", "/", "c", "/", "g" >>, size |-> Len(body), body |-> body],
       [key |-> << "a", "/", "x", "/", "d", "/", "f" >>, size |-> 1, body |-> << 65 >>],
       [key |-> << "a", "/", "y", "/", "c", "/", "f" >>, size |-> 2, body |-> << 65, 10 >>],
       [key |-> << "a", "/", "y", "/", "c", "/", "h", "/", "k" >>, size |-> 1,
        body |-> << 10 >>] >>

\* The bucket of Store with a negative size listed for the object a/x/c/g.
NegativeStore == [Store EXCEPT ![2].size = -1]

DecodeStores == { DecodeStore(body) : body \in Bodies }

\* The url argument of the runs over DecodeStores, with -f and one pooled
\* worker.
DecodePath == << "a", "/", "*", "/", "c", "/", "?" >>

DecodeArgsSet ==
    [Path : { DecodePath }, Limit : { NoLimit }, BufferLimit : BufferLimits,
     Concurrency : { 1 }, List : BOOLEAN, Keys : BOOLEAN]

NoWorker == -1
Running == -1
Streamed == 0
Workers == 0..args.Concurrency
Pooled == 1..args.Concurrency
NoObject == [key |-> << >>, size |-> 0]
Fatal == 2
Panicked == 3

\* A worker that waits in its range loop.
IdleWorker ==
    [pc |-> "idle", obj |-> NoObject, left |-> 0, kind |-> "none",
     content |-> << >>, err |-> "none"]

\* A call of producer.produce(prefix, globs) and the page its walk_page holds.
Frame(prefix, globs) ==
    [prefix |-> prefix, globs |-> globs, token |-> 1,
     result |-> [Contents |-> << >>, CommonPrefixes |-> << >>,
                 NextContinuationToken |-> 1, IsTruncated |-> FALSE],
     idx |-> 1]

Top == stack[Len(stack)]
SetTop(f) == [stack EXCEPT ![Len(stack)] = f]

\* A variant of RootPrefix that starts the listing at the top of the bucket.
RootPrefixWholeBucket(g) == << >>

\* produce: the prefix of the first call, p.produce(globPattern.globFreePrefix, ...).
RootPrefix(g) == g.globFreePrefix

\* A variant of ChannelCap in which the channel of objects is unbuffered.
ChannelUnbuffered == 0

\* Produce: make(chan Object, 2), the capacity of the channel of objects.
ChannelCap == 2

\* Produce and main where the lister signals the consumption mode: p.objects,
\* the objects buffered in channel, sequentialFuture (open or closed), the
\* value main received from it, where main stands, and the history of the
\* closes of sequentialFuture and of the sends on it.
FutureStart ==
    [objects |-> 0, channel |-> << >>, future |-> "open", sequential |-> "unset",
     mpc |-> "recv", closes |-> 0, sends |-> 0]

\* The state in which Run starts its goroutines.
Start ==
    /\ fut = FutureStart
    /\ globPattern = newGlobPattern(args.Path)
    /\ stack = << Frame(RootPrefix(globPattern), globPattern.globs) >>
    /\ ppc = "list"
    /\ bytesDownloaded = 0
    /\ closed = { }
    /\ wk = [w \in Workers |-> IdleWorker]
    /\ semCur = 0
    /\ mu = NoWorker
    /\ output = << >>
    /\ status = Running
    /\ listCalls = << >>
    /\ dispatched = << >>
    /\ processed = << >>

Init ==
    /\ args \in ArgsSet
    /\ store = Store
    /\ Start

\* The url paths that are compiled on their own: every string of at most
\* MaxPathLen characters over a letter, the separator, * and ?.
PathChars == { "a", SEP, "*", "?" }
CompilePaths == UNION { [1..n -> PathChars] : n \in 1..MaxPathLen }

\* The GlobPattern before newGlobPattern has run.
NoPattern == [globFreePrefix |-> << >>, pattern |-> << >>, globs |-> << >>, counts |-> << >>]

\* Run is about to compile the url argument.
InitCompile ==
    /\ args \in [Path : CompilePaths, Limit : { NoLimit }, BufferLimit : BufferLimits,
                  Concurrency : { 1 }, List : { FALSE }, Keys : { FALSE }]
    /\ store = Store
    /\ globPattern = NoPattern
    /\ stack = << >>
    /\ ppc = "compile"
    /\ bytesDownloaded = 0
    /\ closed = { }
    /\ wk = [w \in Workers |-> IdleWorker]
    /\ semCur = 0
    /\ mu = NoWorker
    /\ output = << >>
    /\ status = Running
    /\ listCalls = << >>
    /\ dispatched = << >>
    /\ processed = << >>
    /\ fut = FutureStart

\* produce: newGlobPattern(args.UrlArg).
Compile ==
    /\ status = Running
    /\ ppc = "compile"
    /\ globPattern' = newGlobPattern(args.Path)
    /\ ppc' = "compiled"
    /\ UNCHANGED << fut, args, store, stack, bytesDownloaded, closed, wk, semCur, mu,
                    output, status, listCalls, dispatched, processed >>

\* Runs with one pooled worker over a bucket whose listing reports a negative
\* size for one object.
InitNegative ==
    /\ args \in [Path : Paths, Limit : Limits, BufferLimit : BufferLimits,
                  Concurrency : { 1 }, List : BOOLEAN, Keys : BOOLEAN]
    /\ store = NegativeStore
    /\ Start

\* Runs with at least one pooled worker, with key echo on.
InitPooled ==
    /\ args \in [Path : Paths, Limit : Limits, BufferLimit : BufferLimits,
                  Concurrency : 1..MaxConcurrency, List : BOOLEAN, Keys : { TRUE }]
    /\ store = Store
    /\ Start

\* Runs with -f over a bucket in which one object holds any of Bodies.
InitDecode ==
    /\ args \in DecodeArgsSet
    /\ store \in DecodeStores
    /\ Start

(***************************************************************************)
(* The producer goroutine: producer.produce and producer.walk_page.        *)
(***************************************************************************)
\* A variant of OverLimit that stops as soon as the limit is reached.
OverLimitAtLimit(n) == n >= args.Limit

\* walk_page: the check of the download limit after a dispatch.
OverLimit(n) == n > args.Limit

\* A variant of Lane that keeps an object of exactly the threshold pooled.
LaneInclusive(size) == IF size <= args.BufferLimit THEN "pooled" ELSE "streamed"

\* walk_page: the lane of an object of this size.
Lane(size) == IF size < args.BufferLimit THEN "pooled" ELSE "streamed"

\* A variant of MatchPrefix that recurses into every common prefix.
MatchPrefixAlways(globs, prefix) == TRUE

\* A variant of MatchPrefix that tests a common prefix against the full pattern.
MatchPrefixFullPattern(globs, prefix) == Match(globPattern.pattern, prefix)

\* walk_page: the test of a common prefix against the first remaining glob.
MatchPrefix(globs, prefix) == Match(globs[1], prefix)

\* GlobPattern.filterCommonPrefixes: the common prefixes of one page that the
\* matchers from the i-th on select, in the order in which they are appended.
RECURSIVE FilterFrom(_, _, _, _)
FilterFrom(g, count, commonPrefixes, i) ==
    IF i > Len(g.globs) THEN << >>
    ELSE (IF g.counts[i] = -1 \/ g.counts[i] = count
          THEN SelectSeq(commonPrefixes, LAMBDA cp : Match(g.globs[i], cp.prefix))
          ELSE << >>)
         \o FilterFrom(g, count, commonPrefixes, i + 1)

filterCommonPrefixes(g, commonPrefixes, prefix) ==
    FilterFrom(g, CountSep(prefix) + 1, commonPrefixes, 1)

\* walk_page: the test of a key against the full pattern.
MatchKey(key) == Match(globPattern.pattern, key)

\* produce: the listing is delimited when more than one glob remains.
Delimited(globs) == Len(globs) > 1

\* walk_page: with at most one glob left the page's keys are examined,
\* otherwise its common prefixes.
LeafLevel(globs) == Len(globs) <= 1

\* A variant of NextPageToken that leaves the token of the page just listed.
NextPageTokenStale(f) == f.token

\* produce: input.ContinuationToken = continuationToken for the next page.
NextPageToken(f) == f.result.NextContinuationToken

\* walk_page: the call of ListObjectsV2 for the current page.
ListPage ==
    /\ status = Running
    /\ ppc = "list"
    /\ LET f == Top
           r == ListObjectsV2(f.prefix, Delimited(f.globs), f.token)
       IN  /\ stack' = SetTop([f EXCEPT !.result = r, !.idx = 1])
           /\ listCalls' = Append(listCalls,
                  [prefix |-> f.prefix, token |-> f.token, bytes |-> bytesDownloaded,
                   depth |-> Len(stack), commonPrefixes |-> r.CommonPrefixes])
    /\ ppc' = "loop"
    /\ UNCHANGED << fut, args, store, globPattern, bytesDownloaded, closed, wk, semCur, mu,
                    output, status, dispatched, processed >>

\* produce returns: its caller goes on with the next common prefix, and the
\* goroutine of the root call goes on to its deferred closes.
ReturnFromProduce ==
    IF Len(stack) = 1
    THEN /\ stack' = << >>
         /\ ppc' = "returned"
    ELSE LET rest == SubSeq(stack, 1, Len(stack) - 1)
             parent == rest[Len(rest)]
         IN  /\ stack' = [rest EXCEPT ![Len(rest)] = [parent EXCEPT !.idx = @ + 1]]
             /\ ppc' = "loop"

\* walk_page returns result.NextContinuationToken, result.IsTruncated at the
\* end of its loop, and produce lists the next page or returns.
EndOfPage ==
    /\ status = Running
    /\ ppc = "loop"
    /\ LET f == Top
           n == IF LeafLevel(f.globs) THEN Len(f.result.Contents)
                                      ELSE Len(f.result.CommonPrefixes)
       IN  /\ f.idx > n
           /\ IF f.result.IsTruncated
              THEN /\ stack' = SetTop([f EXCEPT !.token = NextPageToken(f)])
                   /\ ppc' = "list"
              ELSE ReturnFromProduce
    /\ UNCHANGED << fut, args, store, globPattern, bytesDownloaded, closed, wk, semCur, mu,
                    output, status, listCalls, dispatched, processed >>

\* walk_page, len(globs) <= 1: a key that the pattern does not match.
SkipObject ==
    /\ status = Running
    /\ ppc = "loop"
    /\ LeafLevel(Top.globs)
    /\ Top.idx <= Len(Top.result.Contents)
    /\ ~MatchKey(Top.result.Contents[Top.idx].key)
    /\ stack' = SetTop([Top EXCEPT !.idx = @ + 1])
    /\ UNCHANGED << fut, args, store, globPattern, ppc, bytesDownloaded, closed, wk, semCur, mu,
                    output, status, listCalls, dispatched, processed >>

\* A variant of ListOnly that never takes the branch of args.List.
ListOnlyIgnored == FALSE

\* walk_page: if p.args.List.
ListOnly == args.List

\* walk_page, args.List: the matched key is printed.
ListKey ==
    /\ status = Running
    /\ ppc = "loop"
    /\ LeafLevel(Top.globs)
    /\ Top.idx <= Len(Top.result.Contents)
    /\ MatchKey(Top.result.Contents[Top.idx].key)
    /\ ListOnly
    /\ output' = Append(output, [key |-> Top.result.Contents[Top.idx].key, part |-> "line"])
    /\ stack' = SetTop([Top EXCEPT !.idx = @ + 1])
    /\ UNCHANGED << fut, args, store, globPattern, ppc, bytesDownloaded, closed, wk, semCur, mu,
                    status, listCalls, dispatched, processed >>

\* A variant of CanReceive in which a worker takes an object only while no
\* worker of either lane is at work.
CanReceiveWhenAllIdle(w) == \A v \in Workers : wk[v].pc = "idle"

\* A variant of CanReceive in which a send completes whether or not the
\* worker waits for it.
CanReceiveAlways(w) == TRUE

\* Run: the worker w waits in for obj := range of its channel.
CanReceive(w) == wk[w].pc = "idle"

\* walk_page: the send of a matched object on p.pooled or p.streamed, which
\* are unbuffered: it completes when the worker w, waiting in its range loop,
\* receives the object.
Dispatch(w) ==
    /\ status = Running
    /\ ppc = "loop"
    /\ LeafLevel(Top.globs)
    /\ Top.idx <= Len(Top.result.Contents)
    /\ LET e == Top.result.Contents[Top.idx]
           obj == [key |-> e.key, size |-> e.size]
       IN  /\ MatchKey(e.key)
           /\ ~ListOnly
           /\ CanReceive(w)
           /\ IF Lane(e.size) = "pooled" THEN w \in Pooled ELSE w = Streamed
           /\ wk' = [wk EXCEPT ![w] = [IdleWorker EXCEPT
                                          !.pc = IF w = Streamed THEN "download" ELSE "acquire",
                                          !.obj = obj]]
           /\ dispatched' = Append(dispatched,
                  [key |-> e.key, size |-> e.size, lane |-> Lane(e.size),
                   bytes |-> bytesDownloaded])
    /\ ppc' = "count"
    /\ UNCHANGED << fut, args, store, globPattern, stack, bytesDownloaded, closed, semCur, mu,
                    output, status, listCalls, processed >>

\* walk_page: uint64(size), which maps a negative size to the top of the range.
ToUint64(size) == size % CounterModulus

\* walk_page: the object sent is counted, and over the limit walk_page
\* returns nil, false, which ends the loop of its produce.
Count ==
    /\ status = Running
    /\ ppc = "count"
    /\ LET n == (bytesDownloaded + ToUint64(Top.result.Contents[Top.idx].size)) % CounterModulus
       IN  /\ bytesDownloaded' = n
           /\ IF OverLimit(n)
              THEN ReturnFromProduce
              ELSE /\ stack' = SetTop([Top EXCEPT !.idx = @ + 1])
                   /\ ppc' = "loop"
    /\ UNCHANGED << fut, args, store, globPattern, closed, wk, semCur, mu, output, status,
                    listCalls, dispatched, processed >>

\* walk_page, len(globs) > 1: a common prefix that globs[0] does not match.
SkipPrefix ==
    /\ status = Running
    /\ ppc = "loop"
    /\ ~LeafLevel(Top.globs)
    /\ Top.idx <= Len(Top.result.CommonPrefixes)
    /\ ~MatchPrefix(Top.globs, Top.result.CommonPrefixes[Top.idx].prefix)
    /\ stack' = SetTop([Top EXCEPT !.idx = @ + 1])
    /\ UNCHANGED << fut, args, store, globPattern, ppc, bytesDownloaded, closed, wk, semCur, mu,
                    output, status, listCalls, dispatched, processed >>

\* A variant of CallProduce in which the caller does not wait for the call:
\* its loop moves on to the next common prefix at once.
GoProduce(s, f) == Append([s EXCEPT ![Len(s)].idx = @ + 1], f)

\* walk_page: p.produce(prefix, globs[1:]) is an ordinary call, so the loop of
\* the caller stays at this common prefix until the call returns.
CallProduce(s, f) == Append(s, f)

\* walk_page, len(globs) > 1: p.produce(prefix, globs[1:]) for a matched
\* common prefix.
Recurse ==
    /\ status = Running
    /\ ppc = "loop"
    /\ ~LeafLevel(Top.globs)
    /\ Top.idx <= Len(Top.result.CommonPrefixes)
    /\ MatchPrefix(Top.globs, Top.result.CommonPrefixes[Top.idx].prefix)
    /\ stack' = CallProduce(stack, Frame(Top.result.CommonPrefixes[Top.idx].prefix, Tail(Top.globs)))
    /\ ppc' = "list"
    /\ UNCHANGED << fut, args, store, globPattern, bytesDownloaded, closed, wk, semCur, mu,
                    output, status, listCalls, dispatched, processed >>

\* produce: defer close(streamed), which runs first.
CloseStreamed ==
    /\ status = Running
    /\ ppc = "returned"
    /\ closed' = closed \cup { "streamed" }
    /\ ppc' = "closePooled"
    /\ UNCHANGED << fut, args, store, globPattern, stack, bytesDownloaded, wk, semCur, mu,
                    output, status, listCalls, dispatched, processed >>

\* produce: defer close(pooled).
ClosePooled ==
    /\ status = Running
    /\ ppc = "closePooled"
    /\ closed' = closed \cup { "pooled" }
    /\ ppc' = "done"
    /\ UNCHANGED << fut, args, store, globPattern, stack, bytesDownloaded, wk, semCur, mu,
                    output, status, listCalls, dispatched, processed >>

(***************************************************************************)
(* The workers that Run starts: consume, consumeSequential, logContent.    *)
(***************************************************************************)
\* A variant of SemSize that gives sem half of the memory cap.
SemSizeHalved == args.BufferLimit \div 2

\* semaphore.NewWeighted(args.BufferLimit)
SemSize == args.BufferLimit

\* A variant of SemCanAcquire that never blocks.
SemNeverBlocks(n) == TRUE

\* sem.Acquire(ctx, n) returns once n of the capacity is free.
SemCanAcquire(n) == semCur + n <= SemSize

\* A variant of MuCanLock that never blocks.
MuNeverBlocks == TRUE

\* logContent: mu.Lock() returns once no worker holds mu.
MuCanLock == mu = NoWorker

\* io.CopyBuffer: the Write calls that move size bytes through copyBuf.
NumWrites(size) == (size + CopyBufLen - 1) \div CopyBufLen

\* The channel a worker ranges over.
ChannelOf(w) == IF w = Streamed THEN "streamed" ELSE "pooled"

\* A variant of MuBeforeDownload in which the worker takes mu, when it is
\* free, before it downloads.
MuTakenBeforeDownload(w) == IF mu = NoWorker THEN w ELSE mu

\* consume: the download is its first statement and logContent, which locks
\* mu, its last: a worker starts its download without touching mu.
MuBeforeDownload(w) == mu

\* Run: sem.Acquire(context.TODO(), obj.Size) in a pooled worker.
Acquire(w) ==
    /\ status = Running
    /\ w \in Pooled
    /\ wk[w].pc = "acquire"
    /\ SemCanAcquire(wk[w].obj.size)
    /\ semCur' = semCur + wk[w].obj.size
    /\ wk' = [wk EXCEPT ![w].pc = "download"]
    /\ mu' = MuBeforeDownload(w)
    /\ UNCHANGED << fut, args, store, globPattern, stack, ppc, bytesDownloaded, closed,
                    output, status, listCalls, dispatched, processed >>

\* A variant of CapacityAfterDownload in which a pooled worker gives its
\* capacity back as soon as the object is in its buffer.
CapacityReleasedAfterDownload(w) ==
    IF w \in Pooled THEN semCur - wk[w].obj.size ELSE semCur

\* Run: consume(obj, ...) stands between sem.Acquire and sem.Release, and the
\* download ends inside consume, so it leaves the capacity with the worker.
CapacityAfterDownload(w) == semCur

\* consume: the buffered Download; consumeSequential: GetObject. In consume
\* make([]byte, obj.Size) panics on a negative size, which ends the process.
Download(w) ==
    /\ status = Running
    /\ w \in Workers
    /\ wk[w].pc = "download"
    /\ IF w \in Pooled /\ wk[w].obj.size < 0
       THEN /\ status' = Panicked
            /\ wk' = [wk EXCEPT ![w].pc = "panic"]
       ELSE /\ status' = status
            /\ wk' = [wk EXCEPT ![w].pc = "lock"]
    /\ semCur' = CapacityAfterDownload(w)
    /\ UNCHANGED << fut, args, store, globPattern, stack, ppc, bytesDownloaded, closed,
                    mu, output, listCalls, dispatched, processed >>

\* A variant of ReaderInput in which the bytes peeked are lost to the reader.
ReaderInputAfterPeek(body) == SubSeq(body, 5, Len(body))

\* logContent: peekReader.Reset(body), and the reader chosen reads from
\* peekReader, which still holds the bytes that Peek returned.
ReaderInput(body) == body

\* logContent: head, err := peekReader.Peek(4)
Peek(body) == SubSeq(body, 1, IF Len(body) < 4 THEN Len(body) ELSE 4)

\* A variant of ReaderFor that takes the first two bytes for the gzip magic.
ReaderForShortMagic(head) ==
    IF Len(head) = 4 /\ head = zstdMagic THEN "zstd"
    ELSE IF Len(head) >= 2 /\ SubSeq(head, 1, 2) = SubSeq(gzipMagic, 1, 2) THEN "gzip"
    ELSE "plain"

\* logContent: the switch over head that chooses the reader.
ReaderFor(head) ==
    IF Len(head) = 4 /\ head = zstdMagic THEN "zstd"
    ELSE IF Len(head) >= 3 /\ SubSeq(head, 1, 3) = gzipMagic THEN "gzip"
    ELSE "plain"

\* What the reader of this kind delivers from the stream s.
Decode(kind, s) ==
    IF kind = "zstd" THEN Unzstd(s)
    ELSE IF kind = "gzip" THEN Gunzip(s)
    ELSE [out |-> s, err |-> "none"]

\* A variant of CopyOutput that ends the content with a newline when it does
\* not end with one.
CopyOutputNewline(content) ==
    IF content # << >> /\ content[Len(content)] = Newline THEN content
    ELSE content \o << Newline >>

\* logContent: io.CopyBuffer(output, reader, copyBuf) writes what it reads.
CopyOutput(content) == content

\* A variant of IsFatal in which a failed reader is passed over.
IsFatalNever(err) == FALSE

\* logContent: log.Fatalf on an error of Reset and on an error of the copy.
IsFatal(err) == err # "none"

\* A variant of EchoKey that leaves out the header line of an object without
\* content.
EchoKeyNonEmpty(content) == args.Keys /\ content # << >>

\* logContent: if keys, whatever the content.
EchoKey(content) == args.Keys

\* logContent, from peekReader.Reset to the choice of the reader: the kind of
\* the reader, what the copy will write, and the error met on the way.
OpenBody(body) ==
    LET kind == ReaderFor(Peek(body))
        d == Decode(kind, ReaderInput(body))
    IN  [kind |-> kind, content |-> CopyOutput(d.out), err |-> d.err]

\* A variant of TakesLock that locks only for a header followed by content.
TakesLockIfContent(r) == args.Keys /\ r.content # << >>

\* logContent: mu.Lock() is its first statement, whatever the body holds.
TakesLock(r) == TRUE

\* logContent: mu.Lock(), and the reader for the body is chosen. A gzip
\* header that gzipReader.Reset cannot read ends the process.
Lock(w) ==
    /\ status = Running
    /\ w \in Workers
    /\ wk[w].pc = "lock"
    /\ TakesLock(OpenBody(BodyOf(wk[w].obj.key))) => MuCanLock
    /\ mu' = IF TakesLock(OpenBody(BodyOf(wk[w].obj.key))) THEN w ELSE mu
    /\ LET r == OpenBody(BodyOf(wk[w].obj.key))
       IN  IF r.kind = "gzip" /\ r.err = "header" /\ IsFatal(r.err)
           THEN /\ status' = Fatal
                /\ wk' = [wk EXCEPT ![w].pc = "fatal", ![w].kind = r.kind, ![w].err = r.err]
           ELSE /\ status' = status
                /\ wk' = [wk EXCEPT ![w].pc = IF EchoKey(r.content) THEN "header" ELSE "copy",
                                    ![w].left = NumWrites(Len(r.content)),
                                    ![w].kind = r.kind,
                                    ![w].content = r.content,
                                    ![w].err = r.err]
    /\ UNCHANGED << fut, args, store, globPattern, stack, ppc, bytesDownloaded, closed, semCur,
                    output, listCalls, dispatched, processed >>

\* logContent: the header line, when keys is set.
WriteHeader(w) ==
    /\ status = Running
    /\ w \in Workers
    /\ wk[w].pc = "header"
    /\ output' = Append(output, [key |-> wk[w].obj.key, part |-> "header"])
    /\ wk' = [wk EXCEPT ![w].pc = "copy"]
    /\ UNCHANGED << fut, args, store, globPattern, stack, ppc, bytesDownloaded, closed, semCur,
                    mu, status, listCalls, dispatched, processed >>

\* The bytes of the Write of io.CopyBuffer after which left - 1 Writes remain.
Chunk(content, left) ==
    LET k == NumWrites(Len(content)) - left
        last == IF (k + 1) * CopyBufLen < Len(content) THEN (k + 1) * CopyBufLen
                                                       ELSE Len(content)
    IN  SubSeq(content, k * CopyBufLen + 1, last)

\* logContent: one Write of io.CopyBuffer.
WriteContent(w) ==
    /\ status = Running
    /\ w \in Workers
    /\ wk[w].pc = "copy"
    /\ wk[w].left > 0
    /\ output' = Append(output, [key |-> wk[w].obj.key, part |-> "content",
                                  bytes |-> Chunk(wk[w].content, wk[w].left)])
    /\ wk' = [wk EXCEPT ![w].left = @ - 1]
    /\ UNCHANGED << fut, args, store, globPattern, stack, ppc, bytesDownloaded, closed, semCur,
                    mu, status, listCalls, dispatched, processed >>

\* logContent: the copy ends. On an error of the reader log.Fatalf ends the
\* process; otherwise logContent returns and the deferred mu.Unlock() runs:
\* the streamed worker goes back to its range loop, a pooled worker on to
\* sem.Release.
Unlock(w) ==
    /\ status = Running
    /\ w \in Workers
    /\ wk[w].pc = "copy"
    /\ wk[w].left = 0
    /\ IF IsFatal(wk[w].err)
       THEN /\ status' = Fatal
            /\ wk' = [wk EXCEPT ![w].pc = "fatal"]
            /\ UNCHANGED << mu, processed >>
       ELSE /\ status' = status
            /\ mu' = IF mu = w THEN NoWorker ELSE mu
            /\ processed' = Append(processed, wk[w].obj.key)
            /\ wk' = [wk EXCEPT ![w] = IF w = Streamed
                                        THEN IdleWorker
                                        ELSE [@ EXCEPT !.pc = "release"]]
    /\ UNCHANGED << fut, args, store, globPattern, stack, ppc, bytesDownloaded, closed, semCur,
                    output, listCalls, dispatched >>

\* A variant of CapacityAfterRelease in which the worker keeps its capacity
\* when it goes on to the next object.
CapacityKept(w) == semCur

\* sem.Release(obj.Size): the size of the object goes back to sem.
CapacityAfterRelease(w) == semCur - wk[w].obj.size

\* Run: sem.Release(obj.Size) in a pooled worker.
Release(w) ==
    /\ status = Running
    /\ w \in Pooled
    /\ wk[w].pc = "release"
    /\ semCur' = CapacityAfterRelease(w)
    /\ wk' = [wk EXCEPT ![w] = IdleWorker]
    /\ UNCHANGED << fut, args, store, globPattern, stack, ppc, bytesDownloaded, closed, mu,
                    output, status, listCalls, dispatched, processed >>

\* Run: the range loop of a worker ends when its channel is closed, and the
\* deferred wg.Done() runs.
WorkerExit(w) ==
    /\ status = Running
    /\ w \in Workers
    /\ wk[w].pc = "idle"
    /\ ChannelOf(w) \in closed
    /\ wk' = [wk EXCEPT ![w].pc = "exit"]
    /\ UNCHANGED << fut, args, store, globPattern, stack, ppc, bytesDownloaded, closed, semCur,
                    mu, output, status, listCalls, dispatched, processed >>

(***************************************************************************)
(* Run: wg.Wait() and the exit status.                                     *)
(***************************************************************************)
\* A variant of WaitReturns that waits for the pooled workers only.
WaitReturnsPooledOnly == \A w \in Pooled : wk[w].pc = "exit"

\* wg.Wait() returns when every worker has called wg.Done().
WaitReturns == \A w \in Workers : wk[w].pc = "exit"

\* A variant of ExitStatus that reports a counter equal to the limit.
ExitStatusAtLimit(n) == IF n >= args.Limit THEN 1 ELSE 0

\* The status Run ends with for this value of the byte counter.
ExitStatus(n) == IF n > args.Limit THEN 1 ELSE 0

Exit ==
    /\ status = Running
    /\ WaitReturns
    /\ status' = ExitStatus(bytesDownloaded)
    /\ UNCHANGED << fut, args, store, globPattern, stack, ppc, bytesDownloaded, closed, wk,
                    semCur, mu, output, listCalls, dispatched, processed >>

Next ==
    \/ ListPage
    \/ EndOfPage
    \/ SkipObject
    \/ ListKey
    \/ \E w \in Workers : Dispatch(w)
    \/ Count
    \/ SkipPrefix
    \/ Recurse
    \/ CloseStreamed
    \/ ClosePooled
    \/ \E w \in Workers : Acquire(w)
    \/ \E w \in Workers : Download(w)
    \/ \E w \in Workers : Lock(w)
    \/ \E w \in Workers : WriteHeader(w)
    \/ \E w \in Workers : WriteContent(w)
    \/ \E w \in Workers : Unlock(w)
    \/ \E w \in Workers : Release(w)
    \/ \E w \in Workers : WorkerExit(w)
    \/ Exit

Spec == Init /\ [][Next]_vars

\* The same program over the buckets of DecodeStores.
DecodeSpec == InitDecode /\ [][Next]_vars

\* The compilation of the url argument alone, for every path of CompilePaths.
CompileSpec == InitCompile /\ [][Compile]_vars

\* The same program over NegativeStore.
NegativeSpec == InitNegative /\ [][Next]_vars

\* The steps of the producer goroutine after a listing call has returned.
Lister ==
    \/ EndOfPage
    \/ SkipObject
    \/ ListKey
    \/ \E w \in Workers : Dispatch(w)
    \/ Count
    \/ SkipPrefix
    \/ Recurse
    \/ CloseStreamed
    \/ ClosePooled

\* The steps of the goroutine of the worker w.
Worker(w) ==
    /\ w \in Workers
    /\ \/ Acquire(w)
       \/ Download(w)
       \/ Lock(w)
       \/ WriteHeader(w)
       \/ WriteContent(w)
       \/ Unlock(w)
       \/ Release(w)
       \/ WorkerExit(w)

\* ListObjectsV2 returns: the producer does not stay at a listing call.
ListingReturns == []<>~(status = Running /\ ppc = "list")

\* The runs with pooled workers under the scheduling of the Go runtime: a
\* goroutine that can take a step is not left waiting forever, and every store
\* call returns.
PooledSpec ==
    /\ InitPooled
    /\ [][Next]_vars
    /\ WF_vars(Lister)
    /\ \A w \in 0..MaxConcurrency : WF_vars(Worker(w))
    /\ WF_vars(Exit)
    /\ ListingReturns

(***************************************************************************)
(* The producer that signals the consumption mode over sequentialFuture,   *)
(* and the main routine that waits for the signal.                         *)
(***************************************************************************)
\* Runs of the producer that signals over sequentialFuture.
InitFuture ==
    /\ args \in [Path : Paths, Limit : Limits, BufferLimit : BufferLimits,
                  Concurrency : 1..MaxConcurrency, List : BOOLEAN, Keys : { FALSE }]
    /\ store = Store
    /\ Start

\* walk_page: p.objects += 1 for a matched key, and close(p.sequentialFuture)
\* when the count reaches two; the close of a closed channel panics.
CountObject ==
    /\ status = Running
    /\ ppc = "loop"
    /\ LeafLevel(Top.globs)
    /\ Top.idx <= Len(Top.result.Contents)
    /\ MatchKey(Top.result.Contents[Top.idx].key)
    /\ ~ListOnly
    /\ LET n == fut.objects + 1
       IN  /\ fut' = [fut EXCEPT !.objects = n,
                                 !.future = IF n = 2 THEN "closed" ELSE @,
                                 !.closes = IF n = 2 THEN @ + 1 ELSE @]
           /\ status' = IF n = 2 /\ fut.future = "closed" THEN Panicked ELSE status
    /\ ppc' = "send"
    /\ UNCHANGED << args, store, globPattern, stack, bytesDownloaded, closed, wk, semCur, mu,
                    output, listCalls, dispatched, processed >>

\* walk_page: p.channel <- Object{key, size}, which completes while the
\* buffer of the channel has room.
SendObject ==
    /\ status = Running
    /\ ppc = "send"
    /\ Len(fut.channel) < ChannelCap
    /\ LET e == Top.result.Contents[Top.idx]
       IN  /\ fut' = [fut EXCEPT !.channel = Append(@, [key |-> e.key, size |-> e.size])]
           /\ dispatched' = Append(dispatched,
                  [key |-> e.key, size |-> e.size, lane |-> "channel",
                   bytes |-> bytesDownloaded])
    /\ ppc' = "count"
    /\ UNCHANGED << args, store, globPattern, stack, bytesDownloaded, closed, wk, semCur, mu,
                    output, status, listCalls, processed >>

\* produce, root: if p.objects < 2 { p.sequentialFuture <- true }. The
\* channel is unbuffered, so the send completes when main receives; a send
\* on a closed channel panics.
Signal ==
    /\ status = Running
    /\ ppc = "returned"
    /\ IF fut.objects < 2
       THEN IF fut.future = "closed"
            THEN /\ status' = Panicked
                 /\ fut' = fut
            ELSE /\ fut.mpc = "recv"
                 /\ fut' = [fut EXCEPT !.sequential = "true", !.mpc = "consume",
                                       !.sends = @ + 1]
                 /\ status' = status
       ELSE /\ fut' = fut
            /\ status' = status
    /\ ppc' = "closeChannel"
    /\ UNCHANGED << args, store, globPattern, stack, bytesDownloaded, closed, wk, semCur, mu,
                    output, listCalls, dispatched, processed >>

\* produce, root: defer close(p.channel).
CloseChannel ==
    /\ status = Running
    /\ ppc = "closeChannel"
    /\ closed' = closed \cup { "channel" }
    /\ ppc' = "done"
    /\ UNCHANGED << fut, args, store, globPattern, stack, bytesDownloaded, wk, semCur, mu,
                    output, status, listCalls, dispatched, processed >>

\* main: sequential := <-sequentialFuture on the closed channel yields false.
ReceiveClosed ==
    /\ status = Running
    /\ fut.mpc = "recv"
    /\ fut.future = "closed"
    /\ fut' = [fut EXCEPT !.sequential = "false", !.mpc = "consume"]
    /\ UNCHANGED << args, store, globPattern, stack, ppc, bytesDownloaded, closed, wk, semCur,
                    mu, output, status, listCalls, dispatched, processed >>

\* main: if concurrency == 1 || sequential, the objects are consumed by main
\* itself, otherwise by the goroutines of consume.
Sequential == args.Concurrency = 1 \/ fut.sequential = "true"

\* main: one object received from objs and consumed, by consumeSequential or
\* by consume, which is fatal for an object of more than bufferLimit bytes.
Consume ==
    /\ status = Running
    /\ fut.mpc = "consume"
    /\ fut.channel # << >>
    /\ LET obj == Head(fut.channel)
       IN  /\ fut' = [fut EXCEPT !.channel = Tail(@)]
           /\ IF ~Sequential /\ obj.size > args.BufferLimit
              THEN /\ status' = Fatal
                   /\ processed' = processed
              ELSE /\ status' = status
                   /\ processed' = Append(processed, obj)
    /\ UNCHANGED << args, store, globPattern, stack, ppc, bytesDownloaded, closed, wk, semCur,
                    mu, output, listCalls, dispatched >>

\* main: the range over objs, or wg.Wait(), ends once the channel is closed
\* and drained; the status is 1 if p.BytesDownloaded > limit.
MainExit ==
    /\ status = Running
    /\ fut.mpc = "consume"
    /\ fut.channel = << >>
    /\ "channel" \in closed
    /\ fut' = [fut EXCEPT !.mpc = "done"]
    /\ status' = ExitStatus(bytesDownloaded)
    /\ UNCHANGED << args, store, globPattern, stack, ppc, bytesDownloaded, closed, wk, semCur,
                    mu, output, listCalls, dispatched, processed >>

\* The steps of the producer goroutine after a listing call has returned.
FutureLister ==
    \/ EndOfPage
    \/ SkipObject
    \/ ListKey
    \/ CountObject
    \/ SendObject
    \/ Count
    \/ SkipPrefix
    \/ Recurse
    \/ Signal
    \/ CloseChannel

\* The steps of main and of the goroutines it starts.
FutureMain ==
    \/ ReceiveClosed
    \/ Consume
    \/ MainExit

FutureNext ==
    \/ ListPage
    \/ FutureLister
    \/ FutureMain

\* Every goroutine that can take a step takes one in the end, and no listing
\* call lasts for ever.
FutureSpec ==
    /\ InitFuture
    /\ [][FutureNext]_vars
    /\ WF_vars(FutureLister)
    /\ WF_vars(FutureMain)
    /\ ListingReturns


(***************************************************************************)
(* Properties.                                                             *)
(***************************************************************************)
Range(q) == { q[i] : i \in 1..Len(q) }

RECURSIVE SumSizes(_)
SumSizes(q) == IF q = << >> THEN 0 ELSE q[1].size + SumSizes(Tail(q))

RECURSIVE SelectMatched(_)
SelectMatched(q) ==
    IF q = << >> THEN << >>
    ELSE (IF MatchKey(q[1].key) THEN << q[1] >> ELSE << >>) \o SelectMatched(Tail(q))

\* The objects of the store whose key the full pattern matches.
Matched == SelectMatched(store)
MatchedKeys == { Matched[i].key : i \in 1..Len(Matched) }
TotalMatched == SumSizes(Matched)

\* Run has come to its end and reported its status.
Finished == status \in { 0, 1 }

\* The workers that are between the receipt of an object and the return of
\* its logContent.
Busy(w) == wk[w].pc \in { "acquire", "download", "lock", "header", "copy" }

\* The pooled workers that hold capacity of sem.
Holding(w) ==
    wk[w].pc \in { "download", "lock", "header", "copy", "release", "fatal", "panic" }

RECURSIVE HeldBytes(_)
HeldBytes(ws) ==
    IF ws = { } THEN 0
    ELSE LET w == CHOOSE x \in ws : TRUE
         IN  (IF Holding(w) THEN wk[w].obj.size ELSE 0) + HeldBytes(ws \ { w })

Occurrences(q, x) == Cardinality({ i \in 1..Len(q) : q[i] = x })

\* C1: the records written for one object are contiguous in the output: no
\* record of another object lies between two records of the same object.
C1_NoInterleaving ==
    \A i, j, k \in 1..Len(output) :
        (i < j /\ j < k /\ output[i].key = output[k].key) => output[j].key = output[i].key

\* C1 witness: a worker is in the middle of an object (part of it written, a
\* Write still to come) while another worker, of the other lane, waits for mu
\* with its object downloaded.
C1_Witness ==
    \E w \in Pooled :
        /\ wk[Streamed].pc = "copy" /\ wk[Streamed].left > 0
        /\ \E i \in 1..Len(output) : output[i].key = wk[Streamed].obj.key
        /\ wk[w].pc = "lock"

\* C2 (as claimed): no ListObjectsV2 call is issued while the byte counter
\* is above the limit.
C2_NoListingOverLimit ==
    \A i \in 1..Len(listCalls) : listCalls[i].bytes <= args.Limit

\* C3 (as claimed): no object is sent to a lane while the byte counter is
\* above the limit.
C3_NoDispatchOverLimit ==
    \A i \in 1..Len(dispatched) : dispatched[i].bytes <= args.Limit

\* C4 (as claimed): when the matched objects total more than the limit, the
\* run ends with a non-zero status and a byte count of at least the limit.
C4_Original ==
    (Finished /\ TotalMatched > args.Limit)
        => (status # 0 /\ bytesDownloaded >= args.Limit)

\* C4 (amended): in a run that is not list-only, when the matched objects
\* total more than the limit, the run ends with a non-zero status and a byte
\* count of at least the limit.
C4_LimitReported ==
    (Finished /\ ~args.List /\ TotalMatched > args.Limit)
        => (status # 0 /\ bytesDownloaded >= args.Limit)

\* C4 witness: a run that is not list-only has ended with the matched objects
\* above the limit, before all of them were dispatched.
C4_Witness ==
    /\ Finished /\ ~args.List /\ TotalMatched > args.Limit
    /\ status = 1
    /\ Len(dispatched) < Len(Matched)

\* C5 (as claimed): at the end of a run the objects processed by the lanes
\* are exactly the objects the full pattern matches.
C5_Original == Finished => Range(processed) = MatchedKeys

\* C5 (amended): at the end of a run that is not list-only and whose byte
\* counter is not above the limit, the objects processed by the lanes are
\* exactly the objects the full pattern matches.
C5_ProcessedAreMatched ==
    (Finished /\ ~args.List /\ bytesDownloaded <= args.Limit)
        => Range(processed) = MatchedKeys

\* C5 witness: such a run has ended, it went through delimited listings, and
\* the store holds keys under the literal prefix that the pattern rejects.
C5_Witness ==
    /\ Finished /\ ~args.List /\ bytesDownloaded <= args.Limit
    /\ Len(globPattern.globs) > 1
    /\ Cardinality(Range(processed)) >= 3
    /\ \E k \in StoreKeys : HasPrefix(k, globPattern.globFreePrefix) /\ k \notin MatchedKeys

\* C6: no object is dispatched twice, and every dispatched object is either
\* with exactly one worker and not yet processed, or with no worker and
\* processed exactly once; nothing is processed that was not dispatched.
C6_ExactlyOnce ==
    /\ \A i, j \in 1..Len(dispatched) : dispatched[i].key = dispatched[j].key => i = j
    /\ \A i \in 1..Len(dispatched) :
          LET k == dispatched[i].key
              holders == { w \in Workers : (Busy(w) \/ wk[w].pc = "release") /\ wk[w].obj.key = k }
              working == { w \in holders : Busy(w) }
          IN  /\ Cardinality(holders) <= 1
              /\ Cardinality(working) + Occurrences(processed, k) = 1
    /\ \A k \in Range(processed) : \E i \in 1..Len(dispatched) : dispatched[i].key = k

\* C6 witness: the run has ended after objects went to both lanes and to two
\* pooled workers' range loops, over more than one listing page.
C6_Witness ==
    /\ Finished
    /\ \E i, j \in 1..Len(dispatched) : dispatched[i].lane # dispatched[j].lane
    /\ Len(processed) >= 4
    /\ args.Concurrency >= 2

\* C7: a pooled worker only ever holds an object smaller than the threshold,
\* the streamed worker only one that is not smaller, and the lane recorded at
\* the dispatch is the pooled one exactly for the sizes under the threshold.
C7_LaneBySize ==
    /\ \A w \in Pooled : wk[w].obj # NoObject => wk[w].obj.size < args.BufferLimit
    /\ wk[Streamed].obj # NoObject => wk[Streamed].obj.size >= args.BufferLimit
    /\ \A i \in 1..Len(dispatched) :
          dispatched[i].lane = "pooled" <=> dispatched[i].size < args.BufferLimit

\* C7 witness: the streamed worker holds an object of exactly the threshold
\* while a pooled worker holds a smaller one.
C7_Witness ==
    /\ wk[Streamed].obj # NoObject
    /\ wk[Streamed].obj.size = args.BufferLimit
    /\ \E w \in Pooled : wk[w].obj # NoObject

\* The records of the output that belong to key k.
Written(k, part) ==
    Cardinality({ i \in 1..Len(output) : output[i].key = k /\ output[i].part = part })

\* Every dispatched object has been processed and is completely on the
\* output: its header when keys is set, and all the writes of its content.
AllDispatchedWritten ==
    \A i \in 1..Len(dispatched) :
        LET d == dispatched[i]
        IN  /\ d.key \in Range(processed)
            /\ Written(d.key, "content") = NumWrites(d.size)
            /\ Written(d.key, "header") = IF args.Keys THEN 1 ELSE 0

\* C8: when the run reports its status, every object that was dispatched,
\* also one dispatched or still in a lane while the byte counter was above
\* the limit, has been processed and is completely on the output.
C8_DispatchedIsFinished == Finished => AllDispatchedWritten

\* C8 witness: the run has ended above the limit, and an object was on its
\* way through a lane when the counter went above the limit.
C8_Witness ==
    /\ Finished
    /\ bytesDownloaded > args.Limit
    /\ Len(dispatched) >= 2
    /\ \E i \in 1..Len(dispatched) : dispatched[i].bytes > args.Limit

\* C9: the status is non-zero exactly when the final byte counter is above
\* the limit, and it is reported only after the traversal has ended and every
\* worker has left its loop.
C9_StatusIffOverLimit ==
    Finished =>
        /\ (status # 0 <=> bytesDownloaded > args.Limit)
        /\ status \in { 0, 1 }
        /\ stack = << >>
        /\ \A w \in Workers : wk[w].pc = "exit"

\* C9 witness: a run that downloaded has ended with status 1.
C9_Witness ==
    /\ status = 1
    /\ Len(processed) >= 2
    /\ \A w \in Workers : wk[w].pc = "exit"

\* C10: the sizes of the objects for which pooled workers hold capacity of
\* sem sum to at most the memory cap, and to what sem counts as taken.
C10_HeldWithinCap ==
    /\ HeldBytes(Pooled) <= args.BufferLimit
    /\ HeldBytes(Pooled) = semCur

\* C10 witness: a pooled worker waits in sem.Acquire for capacity that
\* another pooled worker holds.
C10_Witness ==
    \E w, v \in Pooled :
        /\ w # v
        /\ wk[w].pc = "acquire"
        /\ ~SemCanAcquire(wk[w].obj.size)
        /\ Holding(v)

\* The subtree markers a listing call was answered with.
MarkersOf(call) == { cp.prefix : cp \in Range(call.commonPrefixes) }

MatchedAtDepth(marker) ==
    \E i \in 1..Len(globPattern.globs) :
        /\ globPattern.counts[i] = -1 \/ globPattern.counts[i] = CountSep(marker)
        /\ Match(globPattern.globs[i], marker)

\* C12: a subtree marker is recursed into only if it matches a matcher whose
\* depth equals the directory depth of the marker or is "any remaining", both
\* in walk_page and in what filterCommonPrefixes selects from the pages
\* listed; for the pattern a/*/c/** the marker a/x/d/ is never listed.
C12_RecursedMarkersMatch ==
    \A i \in 1..Len(listCalls) :
        LET c == listCalls[i]
            selected == IF c.commonPrefixes = << >> THEN << >>
                        ELSE filterCommonPrefixes(globPattern, c.commonPrefixes, c.prefix)
            example == args.Path = <<"a", "/", "*", "/", "c", "/", "*", "*">>
        IN  /\ c.depth > 1 => MatchedAtDepth(c.prefix)
            /\ example => c.prefix # <<"a", "/", "x", "/", "d", "/">>
            /\ \A k \in 1..Len(selected) :
                   /\ MatchedAtDepth(selected[k].prefix)
                   /\ example => selected[k].prefix # <<"a", "/", "x", "/", "d", "/">>

\* C12 witness: under a/*/c/** the page that holds the markers a/x/c/ and
\* a/x/d/ has been walked to its end, and a/x/c/ has been listed.
C12_Witness ==
    /\ args.Path = <<"a", "/", "*", "/", "c", "/", "*", "*">>
    /\ \E i \in 1..Len(listCalls) :
           <<"a", "/", "x", "/", "d", "/">> \in MarkersOf(listCalls[i])
    /\ \E i \in 1..Len(listCalls) : listCalls[i].prefix = <<"a", "/", "x", "/", "c", "/">>
    /\ \E i \in 1..Len(listCalls) : listCalls[i].prefix = <<"a", "/", "y", "/">>

\* C13: in list-only mode no descriptor is sent to either lane and no worker
\* downloads, decodes or writes anything; every matched key is printed as one
\* line, by the lister, in listing order.
C13_ListOnlyPrintsKeys ==
    args.List =>
        /\ dispatched = << >>
        /\ processed = << >>
        /\ \A w \in Workers : ~Busy(w)
        /\ semCur = 0
        /\ mu = NoWorker
        /\ bytesDownloaded = 0
        /\ Len(output) <= Len(Matched)
        /\ \A i \in 1..Len(output) :
               output[i] = [key |-> Matched[i].key, part |-> "line"]
        /\ Finished => Len(output) = Len(Matched)

\* C13 witness: a list-only run has ended after printing several keys.
C13_Witness ==
    /\ args.List
    /\ Finished
    /\ Len(output) >= 3
    /\ Len(output) < Len(store)

\* The content bytes on the output q for the object k, in the order written.
RECURSIVE ContentFrom(_, _)
ContentFrom(q, k) ==
    IF q = << >> THEN << >>
    ELSE (IF q[1].key = k /\ q[1].part = "content" THEN q[1].bytes ELSE << >>)
         \o ContentFrom(Tail(q), k)

ContentOf(k) == ContentFrom(output, k)

\* The worker, if any, that log.Fatalf stopped in logContent for the object k.
FailedOn(k) == \E w \in Workers : wk[w].pc = "fatal" /\ wk[w].obj.key = k

\* The streams that compressing the payload x yields.
Compressed(x) == { Gzip(x), Zstd(x), ZstdFrame(x) }

\* C14: with key echo off, for every payload x, the empty one included, an
\* object whose bytes are gzip(x) or zstd(x) does not stop the run, and what
\* is written for it is x and nothing else: a part of x from its start while
\* the copy is under way, and exactly x once logContent has returned.
C14_CompressedRoundTrip ==
    ~args.Keys =>
        \A i \in 1..Len(store) : \A x \in Payloads :
            store[i].body \in Compressed(x) =>
                /\ ~FailedOn(store[i].key)
                /\ Written(store[i].key, "header") = 0
                /\ Len(ContentOf(store[i].key)) <= Len(x)
                /\ ContentOf(store[i].key) = SubSeq(x, 1, Len(ContentOf(store[i].key)))
                /\ store[i].key \in Range(processed) => ContentOf(store[i].key) = x

\* C14 witness: with key echo off the object that holds gzip("A\n") and an
\* object that holds zstd("\nA") have been written.
C14_Witness ==
    /\ ~args.Keys
    /\ \E i \in 1..Len(store) :
           /\ store[i].body = Gzip(<< 65, Newline >>)
           /\ store[i].key \in Range(processed)
           /\ ContentOf(store[i].key) = << 65, Newline >>
    /\ \E i \in 1..Len(store) :
           /\ store[i].body = Zstd(<< Newline, 65 >>)
           /\ store[i].key \in Range(processed)
           /\ ContentOf(store[i].key) = << Newline, 65 >>

\* The stream s begins with the magic number m.
StartsWith(s, m) == Len(s) >= Len(m) /\ SubSeq(s, 1, Len(m)) = m

\* C15: with key echo off, for every stream that begins with neither the
\* gzip nor the zstd magic, the empty stream included, the object does not
\* stop the run and the bytes written for it are the bytes of the stream,
\* unchanged and with nothing added.
C15_PlainPassThrough ==
    ~args.Keys =>
        \A i \in 1..Len(store) :
            (~StartsWith(store[i].body, gzipMagic) /\ ~StartsWith(store[i].body, zstdMagic)) =>
                /\ ~FailedOn(store[i].key)
                /\ Written(store[i].key, "header") = 0
                /\ Len(ContentOf(store[i].key)) <= Len(store[i].body)
                /\ ContentOf(store[i].key)
                      = SubSeq(store[i].body, 1, Len(ContentOf(store[i].key)))
                /\ store[i].key \in Range(processed) => ContentOf(store[i].key) = store[i].body

\* C15 witness: with key echo off, a stream of more than four bytes that
\* holds a gzip stream after a leading letter, and a short text, have each
\* been written as they are.
C15_Witness ==
    /\ ~args.Keys
    /\ \E i \in 1..Len(store) :
           /\ store[i].body = << 65 >> \o Gzip(<< >>)
           /\ store[i].key \in Range(processed)
           /\ ContentOf(store[i].key) = store[i].body
    /\ \E i \in 1..Len(store) :
           /\ store[i].body = << 65, Newline >>
           /\ store[i].key \in Range(processed)
           /\ ContentOf(store[i].key) = store[i].body

\* What the reader that logContent chooses for the stream s delivers.
Delivered(s) == Decode(ReaderFor(Peek(s)), s).out

\* C16 as stated: once the content of an object has been written, the last
\* byte written for the object is a newline.
C16_Original ==
    \A i \in 1..Len(store) :
        store[i].key \in Range(processed) =>
            LET c == ContentOf(store[i].key)
            IN  c # << >> /\ c[Len(c)] = Newline

\* C16, amended: once the content of an object has been written, nothing has
\* been appended to it: as many bytes are written as the reader delivered,
\* none for empty content, and the last byte written is the last byte of the
\* content, a newline only when the content ends in one.
C16_NothingAppended ==
    \A i \in 1..Len(store) :
        store[i].key \in Range(processed) =>
            LET c == ContentOf(store[i].key)
                d == Delivered(store[i].body)
            IN  /\ Len(c) = Len(d)
                /\ d # << >> => c[Len(c)] = d[Len(d)]
                /\ (c # << >> /\ c[Len(c)] = Newline) => (d # << >> /\ d[Len(d)] = Newline)

\* C16 witness: the content of an object that ends in a letter and of an
\* object that ends in a newline has been written.
C16_Witness ==
    /\ \E i \in 1..Len(store) :
           /\ store[i].key \in Range(processed)
           /\ Delivered(store[i].body) = << Newline, 65 >>
           /\ ContentOf(store[i].key) = << Newline, 65 >>
    /\ \E i \in 1..Len(store) :
           /\ store[i].key \in Range(processed)
           /\ Delivered(store[i].body) = << 65, Newline >>
           /\ ContentOf(store[i].key) = << 65, Newline >>

\* C17: an object whose body is the gzip stream of the empty payload does
\* not stop the run and gets no content written; with key echo on its header
\* line is printed all the same, once, when the writing starts.
C17_EmptyGzip ==
    \A i \in 1..Len(store) :
        store[i].body = Gzip(<< >>) =>
            /\ ~FailedOn(store[i].key)
            /\ Written(store[i].key, "content") = 0
            /\ ContentOf(store[i].key) = << >>
            /\ store[i].key \in Range(processed) =>
                  Written(store[i].key, "header") = IF args.Keys THEN 1 ELSE 0

\* C17 witness: with key echo on, the object that holds the empty gzip stream
\* has been through logContent and its header line is on the output.
C17_Witness ==
    /\ args.Keys
    /\ \E i \in 1..Len(store) :
           /\ store[i].body = Gzip(<< >>)
           /\ store[i].key \in Range(processed)
           /\ Written(store[i].key, "header") = 1
           /\ ContentOf(store[i].key) = << >>

\* C18: when gunzipping the body of an object fails (and the body is not a
\* zstd stream), the run is not stopped on it, and once the object has been
\* through logContent its raw, undecoded body is what was written.
C18_RawOnGunzipFailure ==
    \A i \in 1..Len(store) :
        (Gunzip(store[i].body).err # "none" /\ ~StartsWith(store[i].body, zstdMagic)) =>
            /\ ~FailedOn(store[i].key)
            /\ store[i].key \in Range(processed) => ContentOf(store[i].key) = store[i].body

\* The stream s starts with a magic number and its decompressor fails on it.
DecompressorFails(s) ==
    \/ StartsWith(s, zstdMagic) /\ Unzstd(s).err # "none"
    \/ StartsWith(s, gzipMagic) /\ Gunzip(s).err # "none"

\* What holds in every state for the streams that start with a magic number.
FailureIsFatal ==
    /\ \A i \in 1..Len(store) :
           LET k == store[i].key
               s == store[i].body
           IN  /\ DecompressorFails(s) => k \notin Range(processed)
               /\ (DecompressorFails(s) /\ \E w \in Workers : wk[w].obj.key = k /\ wk[w].pc = "fatal")
                     => status = Fatal
               /\ (k \in Range(processed) /\ ContentOf(k) = << >>
                      /\ (StartsWith(s, zstdMagic) \/ StartsWith(s, gzipMagic)))
                     => s \in { Gzip(<< >>), ZstdFrame(<< >>) }
    /\ status = Fatal =>
           \E w \in Workers :
               /\ wk[w].pc = "fatal"
               /\ mu = w
               /\ DecompressorFails(BodyOf(wk[w].obj.key))
    /\ \A w \in Workers : wk[w].pc = "fatal" => status = Fatal

HasZstdHead(s) == Len(s) >= 4 /\ s[1] = 40 /\ s[2] = 181 /\ s[3] = 47 /\ s[4] = 253
HasGzipHead(s) == Len(s) >= 3 /\ s[1] = 31 /\ s[2] = 139 /\ s[3] = 8

\* C20: the reader a worker has chosen for a body depends on its first four
\* bytes at most: zstd when four bytes are there and are 28 B5 2F FD,
\* otherwise gzip when three bytes are there and are 1F 8B 08, otherwise the
\* body is passed through; every stream of fewer than three bytes, the empty
\* one included, is passed through.
C20_ReaderByMagic ==
    \A w \in Workers :
        wk[w].kind # "none" =>
            LET s == BodyOf(wk[w].obj.key)
            IN  /\ wk[w].kind \in { "zstd", "gzip", "plain" }
                /\ wk[w].kind = "zstd" <=> HasZstdHead(s)
                /\ wk[w].kind = "gzip" <=> (~HasZstdHead(s) /\ HasGzipHead(s))
                /\ Len(s) < 3 => wk[w].kind = "plain"
                /\ \A t \in Bodies :
                       Peek(t) = Peek(s) => ReaderFor(Peek(t)) = wk[w].kind

\* C20 witness: a worker passes through a stream that is the first three
\* bytes of the zstd magic, after the gzip stream before it was decoded.
C20_Witness ==
    /\ \E w \in Workers :
           /\ wk[w].kind = "plain"
           /\ wk[w].pc = "copy"
           /\ BodyOf(wk[w].obj.key) = << 40, 181, 47 >>
    /\ \E i \in 1..Len(store) :
           /\ store[i].key \in Range(processed)
           /\ HasGzipHead(store[i].body)

\* C21: no object with a negative size is sent on a channel, so none reaches
\* the pooled lane, and none is added to the byte counter: the counter never
\* exceeds the sizes of the objects of the store that are not negative.
C21_NegativeSizeNotDispatched ==
    /\ \A i \in 1..Len(dispatched) : dispatched[i].size >= 0
    /\ \A w \in Workers : wk[w].obj.size >= 0
    /\ bytesDownloaded <= SumSizes(SelectSeq(store, LAMBDA o : o.size >= 0))

\* The longest leading part of path that holds no glob metacharacter.
LiteralLead(path) ==
    LET meta == { i \in 1..Len(path) : \E k \in 1..Len(MetaChars) : path[i] = MetaChars[k] }
    IN  IF meta = { } THEN path
        ELSE SubSeq(path, 1, (CHOOSE i \in meta : \A j \in meta : i <= j) - 1)

\* C22: for every pattern the literal prefix that newGlobPattern computes is
\* the longest leading part of the path without a glob metacharacter, also
\* when the first segment with a metacharacter holds **.
C22_PrefixIsLiteralLead ==
    ppc = "compiled" => globPattern.globFreePrefix = LiteralLead(args.Path)

\* The place of the key k in the listing order of the store.
IndexOf(k) == CHOOSE i \in 1..Len(store) : store[i].key = k

\* The lister stands at a matched entry that it has to send.
AtHandOff ==
    /\ status = Running
    /\ ppc = "loop"
    /\ stack # << >>
    /\ LeafLevel(Top.globs)
    /\ Top.idx <= Len(Top.result.Contents)
    /\ MatchKey(Top.result.Contents[Top.idx].key)
    /\ ~args.List

\* The workers of a lane.
LaneWorkers(lane) == IF lane = "pooled" THEN Pooled ELSE { Streamed }

\* The lister waits with an entry whose lane has no idle worker, while a
\* worker of the other lane is idle and a matched object of that other lane
\* follows in the listing.
HeldBack ==
    /\ AtHandOff
    /\ LET e == Top.result.Contents[Top.idx]
       IN  /\ LaneWorkers(Lane(e.size)) # { }
           /\ \A w \in LaneWorkers(Lane(e.size)) : wk[w].pc # "idle"
           /\ \E w \in Workers \ LaneWorkers(Lane(e.size)) : wk[w].pc = "idle"
           /\ \E i \in 1..Len(store) :
                  /\ i > IndexOf(e.key)
                  /\ MatchKey(store[i].key)
                  /\ Lane(store[i].size) # Lane(e.size)

\* C23 as stated: the busy workers of one lane never keep an idle worker of
\* the other lane from the objects of its lane that follow in the listing.
C23_Original == ~HeldBack

\* C23, amended: a hand-off depends on the lane of the object alone: when
\* the lister stands at a matched entry and a worker of its lane is idle, the
\* hand-off can take place whatever the workers of the other lane do. The
\* objects are handed over in listing order, and while the byte counter is
\* not above the limit none is passed over, so that an entry whose lane has
\* no idle worker holds back the objects of both lanes behind it.
C23_HandOffByLaneInOrder ==
    /\ (AtHandOff /\ \E w \in LaneWorkers(Lane(Top.result.Contents[Top.idx].size)) :
                         wk[w].pc = "idle")
          => ENABLED (\E w \in Workers : Dispatch(w))
    /\ \A i, j \in 1..Len(dispatched) :
           i < j => IndexOf(dispatched[i].key) < IndexOf(dispatched[j].key)
    /\ bytesDownloaded <= args.Limit =>
           \A i \in 1..Len(dispatched) : dispatched[i].key = Matched[i].key

\* C23 witness: the streamed worker is still writing a large object while a
\* pooled worker has received and finished a small object that follows it in
\* the listing.
C23_Witness ==
    /\ wk[Streamed].pc = "copy"
    /\ \E k \in Range(processed) :
           /\ IndexOf(k) > IndexOf(wk[Streamed].obj.key)
           /\ Lane(store[IndexOf(k)].size) = "pooled"

ListedPrefixes == { listCalls[n].prefix : n \in 1..Len(listCalls) }

\* A matching common prefix of a page is held back: the call of produce for an
\* earlier common prefix of the page has not returned, and no listing call
\* has been made for this one.
SiblingHeldBack ==
    \E i \in 1..(Len(stack) - 1) :
        \E j \in (stack[i].idx + 1)..Len(stack[i].result.CommonPrefixes) :
            /\ MatchPrefix(stack[i].globs, stack[i].result.CommonPrefixes[j].prefix)
            /\ stack[i].result.CommonPrefixes[j].prefix \notin ListedPrefixes

RECURSIVE DownloadingBytes(_)
DownloadingBytes(ws) ==
    IF ws = { } THEN 0
    ELSE LET w == CHOOSE x \in ws : TRUE
         IN  (IF wk[w].pc = "download" THEN wk[w].obj.size ELSE 0)
                 + DownloadingBytes(ws \ { w })

\* C26 as stated: the capacity is given back when the download ends, so the
\* capacity taken from sem is that of the pooled workers still downloading,
\* and none is held by a worker that waits for or holds the output lock.
C26_Original == semCur = DownloadingBytes(Pooled)

\* C26: a pooled worker acquires the size of its object before anything of
\* the object is written, downloads, decodes and writes under the output
\* lock, and releases only after the object is written: the capacity of every
\* pooled worker from its download to its release is taken from sem, also
\* while the worker waits for the output lock and while it holds it.
C26_CapacityHeldThroughWrite ==
    /\ semCur = HeldBytes(Pooled)
    /\ \A w \in Pooled :
           LET k == wk[w].obj.key
           IN  /\ wk[w].pc \in { "acquire", "download", "lock" }
                      => /\ Written(k, "header") = 0
                         /\ Written(k, "content") = 0
               /\ wk[w].pc \in { "acquire", "download", "lock", "header", "copy" }
                      => k \notin Range(processed)
               /\ wk[w].pc = "release" => k \in Range(processed)
               /\ (mu = w \/ wk[w].pc = "lock") => semCur >= wk[w].obj.size

\* C26 witness: a pooled worker holds the output lock with content of its
\* object written, another pooled worker waits for the lock with its object
\* downloaded, and the sizes of both objects are taken from sem.
C26_Witness ==
    \E w, v \in Pooled :
        /\ w # v
        /\ mu = w
        /\ wk[w].pc = "copy"
        /\ Written(wk[w].obj.key, "content") > 0
        /\ wk[v].pc = "lock"
        /\ wk[w].obj.size > 0
        /\ wk[v].obj.size > 0
        /\ semCur = wk[w].obj.size + wk[v].obj.size

DispatchedKeys == { dispatched[i].key : i \in 1..Len(dispatched) }

\* A worker has received the object of this key and has it in hand.
InHand(k) == \E w \in Workers : wk[w].pc \notin { "idle", "exit" } /\ wk[w].obj.key = k

\* C28: outside list-only runs, every matched entry of the page that the
\* lister has moved past has been sent, so the only matched entry not yet
\* sent is the one the lister stands at; the entry that is being counted is
\* the last one sent; and every object sent has been received by a worker,
\* which has it in hand or has processed it. The lister moves to the next
\* entry, and to the next listing call, only from there.
C28_HandOffBeforeNext ==
    /\ (stack # << >> /\ LeafLevel(Top.globs) /\ ~ListOnly)
          => \A j \in 1..Len(Top.result.Contents) :
                 (j < Top.idx /\ MatchKey(Top.result.Contents[j].key))
                     => Top.result.Contents[j].key \in DispatchedKeys
    /\ ppc = "count"
          => /\ dispatched # << >>
             /\ dispatched[Len(dispatched)].key = Top.result.Contents[Top.idx].key
    /\ \A k \in DispatchedKeys : InHand(k) \/ k \in Range(processed)

\* C28 witness: the lister waits at the second entry of a page, a matched
\* object that no worker of its lane is free to receive, after the first
\* entry of the page has been received; no listing call has been made since.
C28_Witness ==
    /\ AtHandOff
    /\ Top.idx = 2
    /\ Top.result.Contents[1].key \in DispatchedKeys
    /\ Top.result.Contents[2].key \notin DispatchedKeys
    /\ LaneWorkers(Lane(Top.result.Contents[2].size)) # { }
    /\ \A w \in LaneWorkers(Lane(Top.result.Contents[2].size)) : Busy(w)
    /\ listCalls[Len(listCalls)].prefix = Top.prefix
    /\ listCalls[Len(listCalls)].token = Top.token

\* C29: the byte counter never decreases: its value at each hand-off is at
\* least its value at the hand-off before and at most its present value; and
\* whenever the lister is not between a send and the addition that follows
\* it, the counter is the sum of the sizes of all objects sent, the object
\* that took it above the limit included.
C29_CounterIsSumOfDispatched ==
    /\ \A i \in 1..Len(dispatched) :
           /\ dispatched[i].bytes <= bytesDownloaded
           /\ i > 1 => dispatched[i - 1].bytes <= dispatched[i].bytes
    /\ ppc # "count" => bytesDownloaded = SumSizes(dispatched)
    /\ ppc = "count" =>
           bytesDownloaded = SumSizes(SubSeq(dispatched, 1, Len(dispatched) - 1))

\* C30 as stated: in a run that has added to the counter, the counter is
\* read for the exit status only after the lister has closed both channels
\* and every worker has left its loop.
C30_Original ==
    (Finished /\ dispatched # << >>)
             => /\ closed = { "streamed", "pooled" }
                /\ \A w \in Workers : wk[w].pc = "exit"

\* C30: the counter is read for the exit status only after its last update:
\* the lister, the one goroutine that adds to it, has returned from produce
\* and closed the streamed channel, no addition is pending, and every worker
\* has left its loop; when there is a pooled worker the lister has also
\* closed the pooled channel.
C30_ReadAfterLastUpdate ==
    Finished =>
        /\ stack = << >>
        /\ ppc \in { "closePooled", "done" }
        /\ "streamed" \in closed
        /\ bytesDownloaded = SumSizes(dispatched)
        /\ \A w \in Workers : wk[w].pc = "exit"
        /\ args.Concurrency >= 1 => (ppc = "done" /\ "pooled" \in closed)

\* C30 witness: Run has read the counter, which is above the limit, after
\* objects of both lanes were counted and both channels were closed.
C30_Witness ==
    /\ status = 1
    /\ args.Concurrency >= 1
    /\ \E i, j \in 1..Len(dispatched) :
           dispatched[i].lane = "pooled" /\ dispatched[j].lane = "streamed"
    /\ bytesDownloaded > args.Limit
    /\ closed = { "streamed", "pooled" }

\* The metacharacters as a set.
MetaSet == { MetaChars[k] : k \in 1..Len(MetaChars) }

\* C31: the literal prefix that newGlobPattern returns holds none of the
\* metacharacters, for every url path.
C31_PrefixMetaFree ==
    ppc = "compiled" =>
        \A i \in 1..Len(globPattern.globFreePrefix) :
            globPattern.globFreePrefix[i] \notin MetaSet

\* C31 witness: a compiled path that starts with a letter and whose first
\* segment with a metacharacter holds a ? before a *, the metacharacter
\* that the loop looks for earlier than ?; the letter is the literal prefix.
C31_Witness ==
    /\ ppc = "compiled"
    /\ globPattern.globFreePrefix = << "a" >>
    /\ Len(args.Path) >= 3
    /\ args.Path[2] = "?"
    /\ args.Path[3] = "*"
    /\ ~ContainsStarStar(args.Path)

\* C32: the depths of the compiled matchers increase from each entry to the
\* next, but for an entry of depth "any remaining" (-1), which can only be
\* the last one.
C32_DepthsIncrease ==
    ppc = "compiled" =>
        \A i \in 1..Len(globPattern.counts) :
            /\ globPattern.counts[i] = -1 => i = Len(globPattern.counts)
            /\ (i > 1 /\ globPattern.counts[i] # -1)
                   => globPattern.counts[i - 1] < globPattern.counts[i]

\* C33: what filterCommonPrefixes returns for the common prefixes of a listed
\* page holds no subtree marker twice.
C33_MarkersOnce ==
    \A n \in 1..Len(listCalls) :
        LET sel == filterCommonPrefixes(globPattern, listCalls[n].commonPrefixes,
                                        listCalls[n].prefix)
        IN  \A i, j \in 1..Len(sel) : i # j => sel[i] # sel[j]

\* C34: a run with at least one pooled worker over the objects of the store
\* comes to its end: both channels are closed, every worker has left its
\* loop and the status is reported. A channel is closed only when the
\* traversal has ended, streamed first and pooled second, so nothing is sent
\* on a closed channel and no channel is closed twice.
C34_Terminates ==
    /\ <>(Finished /\ closed = { "streamed", "pooled" }
                   /\ \A w \in Workers : wk[w].pc = "exit")
    /\ [](closed # { } => /\ stack = << >>
                          /\ ppc \in { "closePooled", "done" }
                          /\ "streamed" \in closed)
    /\ []("pooled" \in closed <=> ppc = "done")

\* C34 witness: a run with two pooled workers has ended after objects of both
\* lanes were processed.
C34_Witness ==
    /\ Finished
    /\ args.Concurrency = 2
    /\ Len(processed) >= 3
    /\ closed = { "streamed", "pooled" }
    /\ \A w \in Workers : wk[w].pc = "exit"

\* Without pooled workers the lister stands at a matched entry that belongs
\* to the pooled lane: its send on p.pooled has no receiver.
BlockedOnPooled ==
    /\ args.Concurrency = 0
    /\ AtHandOff
    /\ Lane(Top.result.Contents[Top.idx].size) = "pooled"

\* C35: with concurrency 0, once the lister has to send an object of the
\* pooled lane it stays at that send for good: from then on no channel is
\* closed, the streamed worker has not left its loop and no status is
\* reported.
C35_BlocksForever ==
    /\ [](BlockedOnPooled => /\ closed = { }
                             /\ wk[Streamed].pc # "exit"
                             /\ status = Running)
    /\ [][BlockedOnPooled => (BlockedOnPooled' /\ stack' = stack)]_vars

\* C35 witness: with concurrency 0 the lister is at the send of a small
\* matched object while the streamed worker waits for an object.
C35_Witness ==
    /\ BlockedOnPooled
    /\ wk[Streamed].pc = "idle"
    /\ listCalls # << >>
    /\ dispatched = << >>

\* C36: in a list-only run the byte counter stays at zero and the only
\* status the run reports is zero.
C36_ListOnlyStatusZero ==
    args.List => /\ bytesDownloaded = 0
                 /\ status \in { Running, 0 }
                 /\ \A n \in 1..Len(listCalls) : listCalls[n].bytes = 0

\* C36 witness: a list-only run over matched objects whose sizes total more
\* than the limit has printed them all and ended with status zero.
C36_Witness ==
    /\ args.List
    /\ status = 0
    /\ TotalMatched > args.Limit
    /\ Len(output) = Len(Matched)
    /\ Len(output) >= 2

C38_NoLockWhileDownloading ==
    \A w \in Pooled : wk[w].pc \in { "acquire", "download", "lock" } => mu # w

\* C38 witness: two pooled workers download at the same time while the
\* streamed worker holds mu and writes the content of its object.
C38_Witness ==
    /\ args.Concurrency = 2
    /\ \A w \in Pooled : wk[w].pc = "download"
    /\ mu = Streamed
    /\ wk[Streamed].pc = "copy"
    /\ Written(wk[Streamed].obj.key, "content") > 0


\* C39: where the lister signals the consumption mode over sequentialFuture,
\* main receives a signal in every run and its value never changes afterwards;
\* the value is true only when the traversal has ended with fewer than two
\* objects dispatched, such a traversal cannot end without main having
\* received true, and false is received only from the closed channel, which
\* is closed before the second object is dispatched and is then received
\* from in the end. sequentialFuture is closed at most once and never sent
\* on once closed, nothing panics, the send of each of the first two objects
\* finds room in the channel, and the send of the signal finds main waiting.
C39_OneSignal ==
    /\ <>(fut.sequential # "unset")
    /\ [][fut.sequential # "unset" => fut'.sequential = fut.sequential]_vars
    /\ [](fut.sequential = "true" => stack = << >> /\ fut.objects < 2 /\ Len(dispatched) < 2)
    /\ [](ppc \in { "closeChannel", "done" } /\ fut.objects < 2 => fut.sequential = "true")
    /\ [](fut.sequential = "false" => fut.future = "closed" /\ fut.objects >= 2)
    /\ [](Len(dispatched) >= 2 => fut.future = "closed")
    /\ (fut.future = "closed" ~> fut.sequential = "false")
    /\ [](fut.closes <= 1 /\ (fut.future = "closed" => fut.sends = 0) /\ fut.sends <= 1)
    /\ [](status # Panicked)
    /\ [](ppc = "send" /\ fut.objects <= 2 => Len(fut.channel) < ChannelCap)
    /\ [](ppc = "returned" /\ fut.objects < 2 => fut.mpc = "recv")

\* C39 witness: the run has ended after main received false from the closed
\* sequentialFuture, the lister having sent its first two objects and more.
C39_Witness ==
    /\ Finished
    /\ fut.sequential = "false"
    /\ fut.closes = 1
    /\ Len(dispatched) >= 2
    /\ Len(processed) = Len(dispatched)

\* The other case of C39: the run has ended after main received true, one
\* object having been dispatched and consumed.
FutureTrueReceived ==
    /\ Finished
    /\ fut.sequential = "true"
    /\ fut.sends = 1
    /\ Len(dispatched) = 1
    /\ Len(processed) = 1

====
